---- MODULE Spec2Model ----
(***************************************************************************)
(* Model of MyApp.py: the DataBase class (a thin gateway over one sqlite3  *)
(* connection) and the command dispatcher of the __main__ block.           *)
(*                                                                         *)
(* Strings that the program inspects character by character (names, LIKE   *)
(* patterns, date strings, file names) are sequences of one-character      *)
(* strings.  SQL text is a sequence of tokens: every literal piece of an   *)
(* f-string is one token, every interpolated value contributes its own     *)
(* characters.                                                             *)
(***************************************************************************)
EXTENDS Integers, Sequences, FiniteSets, TLC

VARIABLES
    db,         \* the DataBase object's connection: [cur, disk, inTxn]
    plain,      \* a second DataBase object that receives the same calls except create_index/delete_index
    op,         \* name of the last operation invoked
    err,        \* its outcome: "ok" or the exception raised
    result,     \* the list it returned (<<>> when it returns None or raised)
    stmt,       \* the statement it handed to the engine: [text, params]
    args,       \* the caller-supplied data values of that call
    failed,     \* rows written by an insert_many call that raised
    today,      \* date.today() as <<year, month, day>>
    pc,         \* position of the __main__ block
    argCase,    \* the parsed `case` argument
    argName,    \* the parsed `name` argument (list of positional values)
    fs,         \* the database files present in the directory
    ctor        \* the last constructor call: [path, filename, out, conn, made]

dbVars   == <<db, plain, failed>>
callVars == <<op, err, result, stmt, args>>
cliVars  == <<pc, argCase, argName>>
ctorVars == <<fs, ctor>>
vars     == <<db, plain, op, err, result, stmt, args, failed, today, pc, argCase, argName, fs, ctor>>

(***************************************************************************)
(* Bounds                                                                  *)
(***************************************************************************)
MaxRows  == 2       \* rows one table incarnation may receive
MaxBatch == 2       \* length of an insert_many batch
GenBatch == 1       \* generated profiles per batch of case 4

(***************************************************************************)
(* Characters                                                              *)
(***************************************************************************)
Ord(c) ==
    CASE c = "%" -> 37 [] c = "'" -> 39 [] c = "-" -> 45 [] c = "." -> 46
      [] c = "0" -> 48 [] c = "1" -> 49 [] c = "2" -> 50 [] c = "3" -> 51
      [] c = "4" -> 52 [] c = "5" -> 53 [] c = "6" -> 54 [] c = "7" -> 55
      [] c = "8" -> 56 [] c = "9" -> 57
      [] c = "B" -> 66 [] c = "D" -> 68 [] c = "F" -> 70 [] c = "M" -> 77
      [] c = "O" -> 79 [] c = "_" -> 95
      [] c = "a" -> 97 [] c = "b" -> 98 [] c = "d" -> 100 [] c = "e" -> 101
      [] c = "f" -> 102 [] c = "i" -> 105 [] c = "l" -> 108 [] c = "m" -> 109
      [] c = "o" -> 111 [] c = "q" -> 113 [] c = "s" -> 115 [] c = "t" -> 116
      [] c = "x" -> 120
      [] OTHER -> 0

\* a LIKE that compares letters exactly
Upper_Exact(c) == c

\* sqlite's LIKE folds the ASCII letters only
Upper(c) ==
    CASE c = "a" -> "A" [] c = "b" -> "B" [] c = "d" -> "D" [] c = "f" -> "F"
      [] c = "m" -> "M" [] c = "o" -> "O"
      [] OTHER -> c

Range(s) == { s[i] : i \in 1..Len(s) }

RECURSIVE SeqLess(_, _)
\* memcmp order of the BINARY collation
SeqLess(a, b) ==
    IF b = <<>> THEN FALSE
    ELSE IF a = <<>> THEN TRUE
    ELSE IF Head(a) = Head(b) THEN SeqLess(Tail(a), Tail(b))
    ELSE Ord(Head(a)) < Ord(Head(b))

RECURSIVE Like(_, _)
\* s LIKE p
Like(p, s) ==
    IF p = <<>> THEN s = <<>>
    ELSE IF Head(p) = "%"
         THEN \E k \in 0..Len(s) : Like(Tail(p), SubSeq(s, k + 1, Len(s)))
    ELSE /\ s # <<>>
         /\ (Head(p) = "_" \/ Upper(Head(p)) = Upper(Head(s)))
         /\ Like(Tail(p), Tail(s))

(***************************************************************************)
(* Schema                                                                  *)
(***************************************************************************)
DBType ==
    [ NULL |-> "NULL", INTEGER |-> "INTEGER PRIMARY KEY AUTOINCREMENT", REAL |-> "REAL",
      TEXT |-> "TEXT", DATE |-> "DATE", BLOB |-> "BLOB" ]

\* the mapping handed to create_table by case 1
UsersCols ==
    << <<"user_id", DBType.INTEGER>>, <<"name", DBType.TEXT>>,
       <<"date", DBType.DATE>>, <<"gender", DBType.TEXT>> >>

\* another mapping a caller may hand to create_table
OtherCols == << <<"user_id", DBType.INTEGER>>, <<"name", DBType.TEXT>> >>

ColumnMaps == { UsersCols, OtherCols }
TableNames == { "users" }
IndexNames == { "my_index" }

RECURSIVE prepare_labels(_)
prepare_labels(labels) ==
    IF labels = <<>> THEN <<>>
    ELSE <<labels[1][1], " ", labels[1][2]>>
         \o (IF Len(labels) > 1 THEN <<",">> ELSE <<>>)
         \o prepare_labels(Tail(labels))

ColNames(cols) == { cols[i][1] : i \in 1..Len(cols) }

(***************************************************************************)
(* The database as one connection sees it                                  *)
(***************************************************************************)
NoTable == <<>>

EmptyImage == [ cols |-> NoTable, rows |-> {}, seq |-> 0, idx |-> {} ]

\* a connection: its own view, the committed file contents, and whether a
\* transaction is open
NewConnection == [ cur |-> EmptyImage, disk |-> EmptyImage, inTxn |-> FALSE ]

\* the predicate shared by find_name_f and the partial index
NameFPattern == <<"F", "%">>
GenderM == <<"M">>
MatchesF(r) == Like(NameFPattern, r.name) /\ r.gender = GenderM

Entry(r) == [ name |-> r.name, gender |-> r.gender, id |-> r.id ]

\* statements other than INSERT run in autocommit mode unless a transaction is open
RunDDL(c, img) ==
    IF c.inTxn THEN [c EXCEPT !.cur = img] ELSE [c EXCEPT !.cur = img, !.disk = img]

Begin(c) == [c EXCEPT !.inTxn = TRUE]

Commit(c) == [c EXCEPT !.disk = c.cur, !.inTxn = FALSE]

(***************************************************************************)
(* Dates                                                                   *)
(***************************************************************************)
Digit(c) == Ord(c) - 48
IsDigit(c) == Ord(c) \in 48..57
DigitChar(n) == CASE n = 0 -> "0" [] n = 1 -> "1" [] n = 2 -> "2" [] n = 3 -> "3" [] n = 4 -> "4"
                  [] n = 5 -> "5" [] n = 6 -> "6" [] n = 7 -> "7" [] n = 8 -> "8" [] n = 9 -> "9"

IsLeap(y) == (y % 4 = 0 /\ y % 100 # 0) \/ y % 400 = 0

DaysInMonth(y, m) ==
    IF m = 2 THEN (IF IsLeap(y) THEN 29 ELSE 28)
    ELSE IF m \in {4, 6, 9, 11} THEN 30 ELSE 31

ValidDate(y, m, d) == y \in 1..9999 /\ m \in 1..12 /\ d \in 1..DaysInMonth(y, m)

\* str(date): YYYY-MM-DD
IsoFormat(dt) ==
    LET y == dt[1]  m == dt[2]  d == dt[3]
    IN  << DigitChar(y \div 1000), DigitChar((y \div 100) % 10), DigitChar((y \div 10) % 10),
           DigitChar(y % 10), "-", DigitChar(m \div 10), DigitChar(m % 10), "-",
           DigitChar(d \div 10), DigitChar(d % 10) >>

RECURSIVE Number(_)
Number(s) == IF s = <<>> THEN 0 ELSE 10 * Number(SubSeq(s, 1, Len(s) - 1)) + Digit(s[Len(s)])

AllDigits(s) == \A i \in 1..Len(s) : IsDigit(s[i])

BadDate == <<0, 0, 0>>

\* datetime.strptime(s, '%Y-%m-%d'): a four-digit year, a month and a day of
\* one or two digits, and a date of the calendar; BadDate stands for ValueError
strptime(s) ==
    LET dashes == { i \in 1..Len(s) : s[i] = "-" }
    IN  IF Cardinality(dashes) # 2 THEN BadDate
        ELSE LET i  == CHOOSE k \in dashes : \A j \in dashes : k <= j
                 j  == CHOOSE k \in dashes : k # i
                 ys == SubSeq(s, 1, i - 1)
                 ms == SubSeq(s, i + 1, j - 1)
                 ds == SubSeq(s, j + 1, Len(s))
             IN  IF /\ Len(ys) = 4 /\ Len(ms) \in 1..2 /\ Len(ds) \in 1..2
                    /\ AllDigits(ys) /\ AllDigits(ms) /\ AllDigits(ds)
                    /\ ValidDate(Number(ys), Number(ms), Number(ds))
                 THEN <<Number(ys), Number(ms), Number(ds)>>
                 ELSE BadDate

\* Python's (a, b) < (c, d)
PairLess(a, b) == a[1] < b[1] \/ (a[1] = b[1] /\ a[2] < b[2])

\* an age that counts the birthday itself as not yet reached
AgeOn_DayLate(birth_date, now) ==
    now[1] - birth_date[1]
      - (IF ~PairLess(<<birth_date[2], birth_date[3]>>, <<now[2], now[3]>>) THEN 1 ELSE 0)

\* the age of a parsed birth date on the day `now`
AgeOn(birth_date, now) ==
    now[1] - birth_date[1]
      - (IF PairLess(<<now[2], now[3]>>, <<birth_date[2], birth_date[3]>>) THEN 1 ELSE 0)

\* row[1] of the Python tuple is the second projected column
CanAge(row) == Len(row) >= 2 /\ strptime(row[2]) # BadDate

how_old_a_you(row, now) == AgeOn(strptime(row[2]), now)

(***************************************************************************)
(* Rows and their orders                                                   *)
(***************************************************************************)
Perms(S) ==
    { s \in [1..Cardinality(S) -> S] : \A i, j \in 1..Cardinality(S) : i # j => s[i] # s[j] }

\* every list of the elements of S that is ascending for Leq
OrderedBy(S, Leq(_, _)) ==
    { s \in Perms(S) : \A i \in 1..(Cardinality(S) - 1) : Leq(s[i], s[i + 1]) }

ByRowid(a, b) == a.id <= b.id

\* index order: (name, gender, rowid)
ByEntry(a, b) ==
    \/ SeqLess(a.name, b.name)
    \/ a.name = b.name /\ SeqLess(a.gender, b.gender)
    \/ a.name = b.name /\ a.gender = b.gender /\ a.id <= b.id

Field(r, col) ==
    CASE col = "user_id" -> r.id [] col = "name" -> r.name
      [] col = "date" -> r.date [] col = "gender" -> r.gender

ByColumn(col, a, b) ==
    IF col = "user_id" THEN a.id <= b.id
    ELSE Field(a, col) = Field(b, col) \/ SeqLess(Field(a, col), Field(b, col))

Star(r) == <<r.id, r.name, r.date, r.gender>>

Project(r, column_names) == [ i \in 1..Len(column_names) |-> Field(r, column_names[i]) ]

Map(s, F(_)) == [ i \in 1..Len(s) |-> F(s[i]) ]

RECURSIVE Join(_, _)
\* sep.join(items), as tokens
Join(sep, items) ==
    IF items = <<>> THEN <<>>
    ELSE IF Len(items) = 1 THEN <<items[1]>>
    ELSE <<items[1], sep>> \o Join(sep, Tail(items))

(***************************************************************************)
(* DataBase methods.  Each takes the connection c and the method's         *)
(* arguments and yields the connection afterwards, the outcome, the        *)
(* returned list and the statement issued.                                 *)
(***************************************************************************)
Out(c, e, res, text, params) ==
    [ c |-> c, err |-> e, result |-> res, stmt |-> [ text |-> text, params |-> params ] ]

\* CREATE TABLE that replaces an existing table
create_table_Replace(c, tablename, columns) ==
    Out(RunDDL(c, [EmptyImage EXCEPT !.cols = columns]), "ok", <<>>,
        <<"CREATE TABLE ", tablename, " (">> \o prepare_labels(columns) \o <<")">>, <<>>)

create_table(c, tablename, columns) ==
    LET text == <<"CREATE TABLE IF NOT EXISTS ", tablename, " (">> \o prepare_labels(columns) \o <<")">>
    IN  IF c.cur.cols # NoTable
        THEN Out(c, "ok", <<>>, text, <<>>)
        ELSE Out(RunDDL(c, [c.cur EXCEPT !.cols = columns]), "ok", <<>>, text, <<>>)

\* dropping the table drops its rows, its indexes and its sqlite_sequence entry
delete_table(c, tablename) ==
    Out(RunDDL(c, EmptyImage), "ok", <<>>, <<"DROP TABLE IF EXISTS ", tablename>>, <<>>)

\* a statement with four values compiles only against a table of four columns
PrepareInsert(img) ==
    IF img.cols = NoTable \/ Len(img.cols) # 4 THEN "OperationalError" ELSE "ok"

\* OR IGNORE skips a row only when it violates a uniqueness constraint; the
\* table's only one is the primary key
Conflicts(img, r) == \E q \in img.rows : q.id = r.id

\* an insert that leaves the index entries as they are
InsertRow_StaleIndex(img, row) ==
    LET r == [ id |-> img.seq + 1, name |-> row[1], date |-> row[2], gender |-> row[3] ]
    IN  [ img EXCEPT !.rows = @ \cup {r}, !.seq = @ + 1 ]

\* one execution of INSERT OR IGNORE ... VALUES (NULL,?,?,?)
InsertRow(img, row) ==
    LET r == [ id |-> img.seq + 1, name |-> row[1], date |-> row[2], gender |-> row[3] ]
    IN  IF Conflicts(img, r) THEN img
        ELSE [ img EXCEPT !.rows = @ \cup {r},
                          !.seq = @ + 1,
                          !.idx = { [ i EXCEPT !.entries = IF MatchesF(r) THEN @ \cup {Entry(r)} ELSE @ ]
                                    : i \in @ } ]

insert(c, tablename, row) ==
    LET text == <<"INSERT OR IGNORE INTO ", tablename, " VALUES (NULL,?,?,?)">>
    IN  IF PrepareInsert(c.cur) # "ok"
        THEN Out(c, PrepareInsert(c.cur), <<>>, text, row)
        ELSE IF Len(row) # 3
        THEN Out(Begin(c), "ProgrammingError", <<>>, text, row)
        ELSE Out(Commit([ Begin(c) EXCEPT !.cur = InsertRow(c.cur, row) ]), "ok", <<>>, text, row)

RECURSIVE InsertRows(_, _)
InsertRows(img, rows) ==
    IF rows = <<>> THEN img ELSE InsertRows(InsertRow(img, Head(rows)), Tail(rows))

\* the rows executemany runs before it meets a row it cannot bind
Bindable(rows) ==
    LET bad == { i \in 1..Len(rows) : Len(rows[i]) # 3 }
    IN  IF bad = {} THEN rows
        ELSE SubSeq(rows, 1, (CHOOSE i \in bad : \A j \in bad : i <= j) - 1)

insert_many(c, tablename, rows) ==
    LET text == <<"INSERT OR IGNORE INTO ", tablename, " VALUES(NULL,?,?,?)">>
        done == [ Begin(c) EXCEPT !.cur = InsertRows(c.cur, Bindable(rows)) ]
    IN  IF PrepareInsert(c.cur) # "ok"
        THEN Out(c, PrepareInsert(c.cur), <<>>, text, rows)
        ELSE IF Bindable(rows) # rows
        THEN Out(done, "ProgrammingError", <<>>, text, rows)
        ELSE Out(Commit(done), "ok", <<>>, text, rows)

\* the rows of a SELECT, each extended by its age; strptime fails on the
\* first row whose second column is no date
WithAge(rows, now) ==
    IF \E i \in 1..Len(rows) : ~CanAge(rows[i])
    THEN [ err |-> "ValueError", result |-> <<>> ]
    ELSE [ err |-> "ok", result |-> [ i \in 1..Len(rows) |-> Append(rows[i], how_old_a_you(rows[i], now)) ] ]

\* `fetched` is the order in which the engine delivers the rows
read_all(c, tablename, column_names, order_by, fetched, now) ==
    LET text == <<"SELECT ">> \o Join(", ", column_names) \o <<" FROM ", tablename, " ORDER BY ", order_by>>
        proj(r) == Project(r, column_names)
        aged == WithAge(Map(fetched, proj), now)
    IN  IF c.cur.cols = NoTable \/ ~((Range(column_names) \cup {order_by}) \subseteq ColNames(c.cur.cols))
        THEN Out(c, "OperationalError", <<>>, text, <<>>)
        ELSE Out(c, aged.err, aged.result, text, <<>>)

\* the string literal that '{data}' denotes once the text is tokenized: the
\* characters up to the first quote that is not doubled.  ok is FALSE when
\* the literal is unterminated or the caller's text runs on behind it.
RECURSIVE Literal(_)
Literal(s) ==
    IF s = <<>> THEN [ ok |-> FALSE, lit |-> <<>> ]
    ELSE IF Head(s) # "'"
         THEN LET t == Literal(Tail(s)) IN [ ok |-> t.ok, lit |-> <<Head(s)>> \o t.lit ]
    ELSE IF Len(s) = 1 THEN [ ok |-> TRUE, lit |-> <<>> ]
    ELSE IF s[2] = "'"
         THEN LET t == Literal(SubSeq(s, 3, Len(s))) IN [ ok |-> t.ok, lit |-> <<"'">> \o t.lit ]
    ELSE [ ok |-> FALSE, lit |-> <<>> ]

read(c, tablename, column, data, column_names, now) ==
    LET text == <<"SELECT ">> \o Join(", ", column_names)
                  \o <<" FROM ", tablename, " WHERE ", column, " Like '">> \o data \o <<"'">>
        pat  == Literal(data \o <<"'">>)
        hits == { r \in c.cur.rows : Like(pat.lit, Field(r, column)) }
        proj(r) == Project(r, column_names)
        fetched == CHOOSE s \in OrderedBy(hits, ByRowid) : TRUE
        aged == WithAge(Map(fetched, proj), now)
    IN  IF c.cur.cols = NoTable \/ ~((Range(column_names) \cup {column}) \subseteq ColNames(c.cur.cols))
        THEN Out(c, "OperationalError", <<>>, text, <<>>)
        ELSE IF ~pat.ok
        THEN Out(c, "OperationalError", <<>>, text, <<>>)
        ELSE Out(c, aged.err, aged.result, text, <<>>)

\* the partial indexes that cover the query's WHERE clause
Usable(img) == img.idx

\* rows in rowid order, filtered
ScanF(img) ==
    LET hits == { r \in img.rows : MatchesF(r) }
    IN  Map(CHOOSE s \in OrderedBy(hits, ByRowid) : TRUE, Star)

\* rows reached through the entries of the index named plan, in index order
IndexScanF(img, plan) ==
    LET i == CHOOSE x \in img.idx : x.name = plan
        row(e) == Star(CHOOSE r \in img.rows : r.id = e.id)
    IN  Map(CHOOSE s \in OrderedBy(i.entries, ByEntry) : TRUE, row)

\* `plan` is the query planner's choice: "scan" or one of the usable indexes
find_name_f(c, tablename, plan) ==
    LET text == <<"SELECT * FROM ", tablename, " WHERE name LIKE 'F%' AND gender = 'M'">>
    IN  IF c.cur.cols = NoTable \/ ~({"name", "gender"} \subseteq ColNames(c.cur.cols))
        THEN Out(c, "OperationalError", <<>>, text, <<>>)
        ELSE IF plan = "scan"
        THEN Out(c, "ok", ScanF(c.cur), text, <<>>)
        ELSE Out(c, "ok", IndexScanF(c.cur, plan), text, <<>>)

Plans(c) == {"scan"} \cup { i.name : i \in Usable(c.cur) }

\* CREATE INDEX without IF NOT EXISTS
create_index_Strict(c, tablename, indexname) ==
    LET text == <<"CREATE INDEX ", indexname, " ON ", tablename,
                  " (name, gender) WHERE name LIKE 'F%' AND gender = 'M'">>
        built == [ name |-> indexname, entries |-> { Entry(r) : r \in { q \in c.cur.rows : MatchesF(q) } } ]
    IN  IF \/ \E i \in c.cur.idx : i.name = indexname
           \/ c.cur.cols = NoTable
           \/ ~({"name", "gender"} \subseteq ColNames(c.cur.cols))
        THEN Out(c, "OperationalError", <<>>, text, <<>>)
        ELSE Out(RunDDL(c, [c.cur EXCEPT !.idx = @ \cup {built}]), "ok", <<>>, text, <<>>)

create_index(c, tablename, indexname) ==
    LET text == <<"CREATE INDEX IF NOT EXISTS ", indexname, " ON ", tablename,
                  " (name, gender) WHERE name LIKE 'F%' AND gender = 'M'">>
        built == [ name |-> indexname, entries |-> { Entry(r) : r \in { q \in c.cur.rows : MatchesF(q) } } ]
    IN  IF \E i \in c.cur.idx : i.name = indexname
        THEN Out(c, "ok", <<>>, text, <<>>)
        ELSE IF c.cur.cols = NoTable \/ ~({"name", "gender"} \subseteq ColNames(c.cur.cols))
        THEN Out(c, "OperationalError", <<>>, text, <<>>)
        ELSE Out(RunDDL(c, [c.cur EXCEPT !.idx = @ \cup {built}]), "ok", <<>>, text, <<>>)

delete_index(c, indexname) ==
    Out(RunDDL(c, [c.cur EXCEPT !.idx = { i \in @ : i.name # indexname }]), "ok", <<>>,
        <<"DROP INDEX IF EXISTS ", indexname>>, <<>>)

(***************************************************************************)
(* Construction                                                            *)
(***************************************************************************)
\* what the file system holds at a path: a directory, a regular file, nothing
Paths == { "cwd", "cwd/notes.txt", "nowhere" }
PathKind(path) ==
    CASE path = "cwd" -> "dir" [] path = "cwd/notes.txt" -> "file" [] OTHER -> "missing"

MyDb == <<"m", "y", "_", "B", "D", ".", "d", "b">>

RECURSIVE endswith(_, _)
\* str.endswith
endswith(s, suffix) ==
    IF suffix = <<>> THEN TRUE
    ELSE IF s = <<>> THEN FALSE
    ELSE /\ s[Len(s)] = suffix[Len(suffix)]
         /\ endswith(SubSeq(s, 1, Len(s) - 1), SubSeq(suffix, 1, Len(suffix) - 1))

\* os.path.exists
is_path_valid(path) == PathKind(path) # "missing"

\* a check that looks for the extension anywhere in the name
is_filename_valid_Anywhere(filename) ==
    \E i \in 0..Len(filename) :
        \/ endswith(SubSeq(filename, 1, i), <<".", "d", "b">>)
        \/ endswith(SubSeq(filename, 1, i), <<".", "s", "q", "l", "i", "t", "e", "3">>)

is_filename_valid(filename) ==
    endswith(filename, <<".", "d", "b">>) \/ endswith(filename, <<".", "s", "q", "l", "i", "t", "e", "3">>)

\* DataBase(path, filename) against the files f of the directory: the outcome,
\* the connections opened, and the files afterwards.  sqlite3.connect
\* creates the file in a directory and cannot open one below a regular file.
DataBase_init(f, path, filename) ==
    IF ~is_path_valid(path)
    THEN [ out |-> "path", conn |-> 0, files |-> f ]
    ELSE IF ~is_filename_valid(filename)
    THEN [ out |-> "filename", conn |-> 0, files |-> f ]
    ELSE IF PathKind(path) # "dir"
    THEN [ out |-> "OperationalError", conn |-> 0, files |-> f ]
    ELSE [ out |-> "ok", conn |-> 1, files |-> f \cup {filename} ]

Constructed(path, filename, o, f) ==
    [ path |-> path, filename |-> filename, out |-> o.out, conn |-> o.conn, made |-> o.files \ f ]

(***************************************************************************)
(* Inputs                                                                  *)
(***************************************************************************)
Names   == { <<"F", "o">>, <<"f", "o">>, <<"B", "o">> }
Genders == { <<"M">>, <<"F">> }
Today0  == <<2024, 5, 14>>
Dates   == { IsoFormat(<<1990, 5, 15>>) }

\* well-formed rows (name, birthdate, gender) and rows of another length
RowsOf(dates) ==
    { r \in Names \X dates \X Genders : r[3] = <<"M">> \/ r[1] = <<"F", "o">> }
ShortRows == { << <<"F", "o">> >> }
Batches(rowset) == UNION { [1..n -> rowset] : n \in 0..MaxBatch }

Patterns    == { <<"F", "%">>, <<"_", "o">>, <<"F", "'">> }
ColumnLists == { <<"name", "date", "gender">>, <<"name", "gender">> }
OrderBys    == { "name", "user_id" }

RECURSIVE Flatten(_)
Flatten(rows) == IF rows = <<>> THEN <<>> ELSE Head(rows) \o Flatten(Tail(rows))

(***************************************************************************)
(* Calls on a constructed DataBase object                                  *)
(***************************************************************************)
\* record a call: o is its outcome on db, p its outcome on plain
Call(name, o, p, a, f) ==
    /\ db' = o.c
    /\ plain' = p.c
    /\ op' = name
    /\ err' = o.err
    /\ result' = o.result
    /\ stmt' = o.stmt
    /\ args' = a
    /\ failed' = f

CreateTable ==
    \E t \in TableNames, cols \in ColumnMaps :
        /\ Call("create_table", create_table(db, t, cols), create_table(plain, t, cols), <<>>, failed)
        /\ UNCHANGED <<today, cliVars, ctorVars>>

DeleteTable ==
    \E t \in TableNames :
        /\ Call("delete_table", delete_table(db, t), delete_table(plain, t), <<>>, {})
        /\ UNCHANGED <<today, cliVars, ctorVars>>

InsertOf(rowset, cap) ==
    \E t \in TableNames, row \in rowset :
        /\ db.cur.seq < cap
        /\ Call("insert", insert(db, t, row), insert(plain, t, row), row, failed)
        /\ UNCHANGED <<today, cliVars, ctorVars>>

Insert == InsertOf(RowsOf(Dates) \cup ShortRows, MaxRows)

InsertMany ==
    \E t \in TableNames, rows \in Batches(RowsOf(Dates) \cup ShortRows) :
        LET o == insert_many(db, t, rows)
        IN  /\ db.cur.seq + Len(rows) <= MaxRows
            /\ Call("insert_many", o, insert_many(plain, t, rows), Flatten(rows),
                    IF o.err = "ProgrammingError" THEN failed \cup (o.c.cur.rows \ db.cur.rows) ELSE failed)
            /\ UNCHANGED <<today, cliVars, ctorVars>>

ReadAll ==
    \E t \in TableNames, cn \in ColumnLists, ob \in OrderBys :
        \E fetched \in OrderedBy(db.cur.rows, LAMBDA a, b : ByColumn(ob, a, b)) :
            /\ Call("read_all", read_all(db, t, cn, ob, fetched, today),
                    read_all(plain, t, cn, ob, fetched, today), <<>>, failed)
            /\ UNCHANGED <<today, cliVars, ctorVars>>

Read ==
    \E t \in TableNames, col \in {"name"}, data \in Patterns, cn \in ColumnLists :
        /\ Call("read", read(db, t, col, data, cn, today), read(plain, t, col, data, cn, today),
                <<data>>, failed)
        /\ UNCHANGED <<today, cliVars, ctorVars>>

FindNameF ==
    \E t \in TableNames, plan \in Plans(db) :
        /\ Call("find_name_f", find_name_f(db, t, plan), find_name_f(plain, t, "scan"), <<>>, failed)
        /\ UNCHANGED <<today, cliVars, ctorVars>>

\* plain does not receive the index calls
CreateIndex ==
    \E t \in TableNames, i \in IndexNames :
        /\ Call("create_index", create_index(db, t, i), [ c |-> plain ], <<>>, failed)
        /\ UNCHANGED <<today, cliVars, ctorVars>>

DeleteIndex ==
    \E i \in IndexNames :
        /\ Call("delete_index", delete_index(db, i), [ c |-> plain ], <<>>, failed)
        /\ UNCHANGED <<today, cliVars, ctorVars>>

NoCall ==
    /\ op = "init" /\ err = "ok" /\ result = <<>> /\ args = <<>>
    /\ stmt = [ text |-> <<>>, params |-> <<>> ]

Init ==
    /\ db = NewConnection /\ plain = NewConnection /\ failed = {}
    /\ NoCall
    /\ today = Today0
    /\ pc = "api" /\ argCase = "" /\ argName = <<>>
    /\ fs = {MyDb}
    /\ ctor = Constructed("cwd", MyDb, DataBase_init({}, "cwd", MyDb), {})

Next ==
    \/ CreateTable \/ DeleteTable \/ Insert \/ InsertMany \/ ReadAll \/ Read
    \/ FindNameF \/ CreateIndex \/ DeleteIndex

Spec == Init /\ [][Next]_vars

(***************************************************************************)
(* Properties of the calls (specification Spec)                            *)
(***************************************************************************)
Values(r) == <<r.name, r.date, r.gender>>

Copies(img, t) == Cardinality({ r \in img.rows : Values(r) = t })

\* C1: after a successful insert_many into the users table of case 1, every
\* (name, birthdate, gender) tuple of the batch is stored exactly once.
C1_DuplicateIgnored ==
    (op = "insert_many" /\ err = "ok" /\ db.cur.cols = UsersCols)
        => \A t \in Range(stmt.params) : Copies(db.cur, t) = 1

\* what find_name_f returns on the object that never received an index call
PlainFind == find_name_f(plain, "users", "scan")

Count(s, x) == Cardinality({ i \in 1..Len(s) : s[i] = x })

\* C2: find_name_f returns the same rows with the same column values, each
\* as often, as it does after the same calls without create_index and
\* delete_index; it fails exactly when that run fails.
C2_IndexTransparent ==
    op = "find_name_f"
        => /\ err = PlainFind.err
           /\ Len(result) = Len(PlainFind.result)
           /\ \A x \in Range(result) \cup Range(PlainFind.result) :
                  Count(result, x) = Count(PlainFind.result, x)

\* rows are found through an index that was created between two inserts of
\* matching rows, in an order a table scan does not produce
C2_Witness ==
    /\ op = "find_name_f" /\ err = "ok"
    /\ db.cur.idx # {}
    /\ Len(result) >= 2
    /\ result # PlainFind.result

BeginsWith(name, chars) == Len(name) >= 1 /\ name[1] \in chars

Returned(img, chars) ==
    { Star(r) : r \in { q \in img.rows : BeginsWith(q.name, chars) /\ q.gender = <<"M">> } }

ExactlyOnce(res, S) == Range(res) = S /\ Len(res) = Cardinality(S)

\* C3 as stated: find_name_f returns, once each and with all columns,
\* exactly the rows whose name begins with F and whose gender is M.
C3_OnlyUpperF ==
    (op = "find_name_f" /\ err = "ok") => ExactlyOnce(result, Returned(db.cur, {"F"}))

\* C3 amended: find_name_f returns, once each and with all columns, exactly
\* the rows whose name begins with F or f and whose gender is M.
C3_EitherCaseF ==
    (op = "find_name_f" /\ err = "ok") => ExactlyOnce(result, Returned(db.cur, {"F", "f"}))

C3_Witness ==
    /\ op = "find_name_f" /\ err = "ok"
    /\ Len(result) = 1
    /\ Cardinality(db.cur.rows) = 2
    /\ \E r \in db.cur.rows : r.name[1] = "f" /\ r.gender = <<"M">>

\* C4: no row written by an insert_many call that raised is ever part of
\* the committed contents of the table.
C4_FailedBatchNeverCommitted == failed \cap db.disk.rows = {}

DDL == { "create_table", "delete_table", "create_index", "delete_index" }

\* the outcomes of calling the last DDL operation once more with the same
\* table or index name (create_table: with any column mapping)
Again ==
    CASE op = "create_table" -> { create_table(db, stmt.text[2], cols) : cols \in ColumnMaps }
      [] op = "delete_table" -> { delete_table(db, stmt.text[2]) }
      [] op = "create_index" -> { create_index(db, stmt.text[4], stmt.text[2]) }
      [] op = "delete_index" -> { delete_index(db, stmt.text[2]) }
      [] OTHER -> {}

\* C5 as stated: after any call of a DDL operation, the same call once more
\* raises no error and leaves schema, indexes and rows as they are.
C5_SecondCallInAnyState ==
    op \in DDL => \A o \in Again : o.err = "ok" /\ o.c = db

\* C5 amended: after a DDL call that raised no error, the same call once
\* more raises no error and leaves schema, indexes and rows as they are.
C5_SecondCallAfterSuccess ==
    (op \in DDL /\ err = "ok") => \A o \in Again : o.err = "ok" /\ o.c = db

\* create_table was called with another column mapping on a table that holds rows
C5_Witness ==
    /\ op = "create_table" /\ err = "ok"
    /\ db.cur.rows # {}
    /\ stmt.text # create_table(db, "users", db.cur.cols).stmt.text

RECURSIVE Occurs(_, _)
\* v is a contiguous part of text
Occurs(v, text) ==
    IF Len(text) < Len(v) THEN FALSE
    ELSE SubSeq(text, 1, Len(v)) = v \/ Occurs(v, Tail(text))

\* C9: no caller-supplied data value of a call is part of the SQL text of
\* the statement the call issues.
C9_ValuesNeverInText == \A i \in 1..Len(args) : ~Occurs(args[i], stmt.text)

Reads == { "read_all", "read", "find_name_f" }

\* C10: a call changes the rows the DataBase object sees only by insert or
\* insert_many adding rows or by delete_table removing all of them; every
\* other call leaves them as they are, and a stored row stays unchanged
\* until delete_table.
C10_Lifecycle ==
    [][ /\ op' \in Reads \cup { "create_table", "create_index", "delete_index" }
            => db'.cur.rows = db.cur.rows
        /\ op' \in { "insert", "insert_many" } => db.cur.rows \subseteq db'.cur.rows
        /\ op' = "delete_table" => db'.cur.rows = {}
        /\ op' # "delete_table" => db.cur.rows \subseteq db'.cur.rows ]_vars

C10_Witness ==
    /\ op = "create_table" /\ err = "ok"
    /\ Cardinality(db.cur.rows) = 2
    /\ db.cur.idx # {}

(***************************************************************************)
(* Ages: one stored row per table, read on a range of days                 *)
(* (specification SpecAge)                                                 *)
(***************************************************************************)
AgeSpan == 2        \* years of the calendar range after 2000

CalendarDays ==
    { dt \in (2000..(2000 + AgeSpan)) \X {2, 3, 12} \X {1, 28, 29, 31} :
        ValidDate(dt[1], dt[2], dt[3]) }

BirthDays == CalendarDays \cup { <<1990, 5, 15>> }
ReadDays  == CalendarDays \cup { <<2024, 5, 14>>, <<2024, 5, 16>> }

DateLess(a, b) == a[1] < b[1] \/ (a[1] = b[1] /\ PairLess(<<a[2], a[3]>>, <<b[2], b[3]>>))

AgeRows == { <<n, IsoFormat(b), <<"F">>>> : n \in { <<"B", "o">> }, b \in { x \in BirthDays : ~DateLess(today, x) } }

AgeInsert == InsertOf(AgeRows, 1)

\* the clock passes midnight: date.today() moves to the next day of the range
Midnight ==
    /\ \E next \in ReadDays :
          /\ DateLess(today, next)
          /\ \A other \in ReadDays : DateLess(today, other) => ~DateLess(other, next)
          /\ today' = next
    /\ op' = "midnight" /\ err' = "ok" /\ result' = <<>> /\ args' = <<>>
    /\ stmt' = [ text |-> <<>>, params |-> <<>> ]
    /\ UNCHANGED <<dbVars, cliVars, ctorVars>>

InitAge ==
    /\ db = NewConnection /\ plain = NewConnection /\ failed = {}
    /\ NoCall
    /\ today \in ReadDays
    /\ pc = "api" /\ argCase = "" /\ argName = <<>>
    /\ fs = {MyDb}
    /\ ctor = Constructed("cwd", MyDb, DataBase_init({}, "cwd", MyDb), {})

NextAge == CreateTable \/ AgeInsert \/ ReadAll \/ Midnight

SpecAge == InitAge /\ [][NextAge]_vars

\* days from 0001-01-01 to dt
DaysBeforeYear(y) == 365 * (y - 1) + ((y - 1) \div 4) - ((y - 1) \div 100) + ((y - 1) \div 400)

RECURSIVE DaysBeforeMonth(_, _)
DaysBeforeMonth(y, m) == IF m <= 1 THEN 0 ELSE DaysBeforeMonth(y, m - 1) + DaysInMonth(y, m - 1)

Ordinal(dt) == DaysBeforeYear(dt[1]) + DaysBeforeMonth(dt[1], dt[2]) + dt[3]

\* the k-th birthday: the same month and day k years on, the first of March
\* for a 29 February in a year without one
Birthday(b, k) ==
    IF ValidDate(b[1] + k, b[2], b[3]) THEN <<b[1] + k, b[2], b[3]>> ELSE <<b[1] + k, 3, 1>>

\* full years elapsed from b to now
FullYears(b, now) ==
    Cardinality({ k \in 1..(now[1] - b[1]) : Ordinal(Birthday(b, k)) <= Ordinal(now) })

SelectsNameDateGender ==
    /\ Len(stmt.text) >= 6
    /\ <<stmt.text[2], stmt.text[4], stmt.text[6]>> = <<"name", "date", "gender">>
    /\ stmt.text[7] = " FROM "

\* C6: read_all with columns (name, date, gender) returns for every stored
\* row (name, birthdate, gender) the tuple (name, birthdate, gender, age)
\* with the birthdate string as inserted and age the number of full years
\* from the birthdate to the current date.
C6_AgeIsFullYears ==
    (op = "read_all" /\ err = "ok" /\ SelectsNameDateGender)
        => /\ Len(result) = Cardinality(db.cur.rows)
           /\ \A r \in db.cur.rows :
                \E b \in BirthDays :
                    /\ IsoFormat(b) = r.date
                    /\ \E i \in 1..Len(result) :
                           result[i] = <<r.name, r.date, r.gender, FullYears(b, today)>>

\* the row of 1990-05-15 is read as 33 years old on 2024-05-14
C6_Witness ==
    /\ op = "read_all" /\ err = "ok" /\ SelectsNameDateGender
    /\ today = <<2024, 5, 14>>
    /\ result = << << <<"B", "o">>, IsoFormat(<<1990, 5, 15>>), <<"F">>, 33 >> >>

(***************************************************************************)
(* Constructor calls (specification SpecCtor)                              *)
(***************************************************************************)
Filenames ==
    { <<"a", ".", "d", "b">>, <<".", "d", "b">>, <<"a", ".", "s", "q", "l", "i", "t", "e", "3">>,
      <<"a", ".", "t", "x", "t">>, <<"a", ".", "D", "B">>, <<"a", "d", "b">>, <<"d", "b">>,
      <<"a", ".", "d", "b", ".", "t", "x", "t">>, <<"a", ".", "s", "q", "l", "i", "t", "e">>, <<>> }

Construct ==
    \E path \in Paths, filename \in Filenames :
        LET o == DataBase_init(fs, path, filename)
        IN  /\ ctor' = Constructed(path, filename, o, fs)
            /\ fs' = o.files
            /\ UNCHANGED <<dbVars, callVars, today, cliVars>>

InitCtor ==
    /\ db = NewConnection /\ plain = NewConnection /\ failed = {}
    /\ NoCall
    /\ today = Today0
    /\ pc = "api" /\ argCase = "" /\ argName = <<>>
    /\ fs = {}
    /\ ctor = [ path |-> "", filename |-> <<>>, out |-> "none", conn |-> 0, made |-> {} ]

NextCtor == Construct

SpecCtor == InitCtor /\ [][NextCtor]_vars

Last(s, n) == IF Len(s) < n THEN <<>> ELSE SubSeq(s, Len(s) - n + 1, Len(s))

Accepted(filename) ==
    \/ Last(filename, 3) = <<".", "d", "b">>
    \/ Last(filename, 8) = <<".", "s", "q", "l", "i", "t", "e", "3">>

Choices == { "1", "2", "3", "4", "5", "6", "7" }

\* positional values after the case: none, one, two, three or four of them
NameArgs ==
    { <<>>, << <<"F", "o">> >>, << <<"F", "o">>, IsoFormat(<<1990, 5, 15>>) >>,
      << <<"F", "o">>, IsoFormat(<<1990, 5, 15>>), <<"M">>, <<"M">> >> }
    \cup RowsOf(Dates)

\* parse_args: "usage" stands for my_parser.error (the process exits)
parse_args(case, name) ==
    IF case \notin Choices THEN "usage"
    ELSE IF case = "2" /\ name = <<>> THEN "usage"
    ELSE "parsed"

\* generate_profile and generate_profile_f
Profiles  == RowsOf(Dates)
ProfilesF == { <<<<"F">> \o r[1], r[2], r[3]>> : r \in Profiles }

ParseArgs ==
    /\ pc = "start"
    /\ \E case \in Choices \cup {"8"}, name \in NameArgs :
          /\ argCase' = case
          /\ argName' = name
          /\ pc' = parse_args(case, name)
    /\ UNCHANGED <<dbVars, callVars, today, ctorVars>>

\* my_sqlite3_database = DataBase(path=os.getcwd(), filename="my_BD.db")
CliConstruct ==
    /\ pc = "parsed"
    /\ LET o == DataBase_init(fs, "cwd", MyDb)
       IN  /\ ctor' = Constructed("cwd", MyDb, o, fs)
           /\ fs' = o.files
           /\ pc' = IF o.out = "ok" THEN "ready" ELSE "crashed"
    /\ UNCHANGED <<dbVars, callVars, today, argCase, argName>>

\* record the last call of a case; an exception ends the run
Ran(name, o, a) ==
    /\ db' = o.c
    /\ op' = name
    /\ err' = o.err
    /\ result' = o.result
    /\ stmt' = o.stmt
    /\ args' = a
    /\ pc' = IF o.err = "ok" THEN "done" ELSE "crashed"
    /\ UNCHANGED <<plain, failed, today, argCase, argName, ctorVars>>

Case1 ==
    /\ pc = "ready" /\ argCase = "1"
    /\ Ran("create_table", create_table(db, "users", UsersCols), <<>>)

Case2 ==
    /\ pc = "ready" /\ argCase = "2"
    /\ db.cur.seq < MaxRows
    /\ Ran("insert", insert(db, "users", argName), argName)

Case3 ==
    /\ pc = "ready" /\ argCase = "3"
    /\ \E fetched \in OrderedBy(db.cur.rows, LAMBDA a, b : ByColumn("name", a, b)) :
          Ran("read_all", read_all(db, "users", <<"name", "date", "gender">>, "name", fetched, today), <<>>)

Case4 ==
    /\ pc = "ready" /\ argCase = "4"
    /\ db.cur.seq + 2 <= MaxRows
    /\ \E people \in [1..GenBatch -> Profiles], people_f \in [1..GenBatch -> ProfilesF] :
          LET first == insert_many(db, "users", people)
          IN  IF first.err # "ok"
              THEN Ran("insert_many", first, Flatten(people))
              ELSE Ran("insert_many", insert_many(first.c, "users", people_f), Flatten(people_f))

Case5 ==
    /\ pc = "ready" /\ argCase = "5"
    /\ \E plan \in Plans(db) : Ran("find_name_f", find_name_f(db, "users", plan), <<>>)

Case6 ==
    /\ pc = "ready" /\ argCase = "6"
    /\ LET made == create_index(db, "users", "my_index")
       IN  IF made.err # "ok"
           THEN Ran("create_index", made, <<>>)
           ELSE \E plan \in Plans(made.c) : Ran("find_name_f", find_name_f(made.c, "users", plan), <<>>)

Case7 ==
    /\ pc = "ready" /\ argCase = "7"
    /\ pc' = "done"
    /\ UNCHANGED <<dbVars, callVars, today, argCase, argName, ctorVars>>

\* the process ends: the connection is closed and what it has not committed is lost
Exit ==
    /\ pc \in { "usage", "done", "crashed" }
    /\ pc' = "start"
    /\ argCase' = "" /\ argName' = <<>>
    /\ db' = [ cur |-> db.disk, disk |-> db.disk, inTxn |-> FALSE ]
    /\ op' = "init" /\ err' = "ok" /\ result' = <<>> /\ args' = <<>>
    /\ stmt' = [ text |-> <<>>, params |-> <<>> ]
    /\ ctor' = [ path |-> "", filename |-> <<>>, out |-> "none", conn |-> 0, made |-> {} ]
    /\ UNCHANGED <<plain, failed, today, fs>>

InitCli ==
    /\ db = NewConnection /\ plain = NewConnection /\ failed = {}
    /\ NoCall
    /\ today = Today0
    /\ pc = "start" /\ argCase = "" /\ argName = <<>>
    /\ fs = {}
    /\ ctor = [ path |-> "", filename |-> <<>>, out |-> "none", conn |-> 0, made |-> {} ]

NextCli ==
    \/ ParseArgs \/ CliConstruct
    \/ Case1 \/ Case2 \/ Case3 \/ Case4 \/ Case5 \/ Case6 \/ Case7
    \/ Exit

SpecCli == InitCli /\ [][NextCli]_vars

\* C8: a run of case 2 with a number of positional values other than 3
\* ends with the argument error, with no DataBase object constructed and no
\* DataBase operation invoked; only a run with exactly 3 values inserts.
C8_Case2NeedsThreeValues ==
    /\ (argCase = "2" /\ Len(argName) # 3 /\ pc \in { "usage", "done", "crashed" })
          => (pc = "usage" /\ ctor.out = "none" /\ op = "init")
    /\ (argCase = "2" /\ op = "insert" /\ err = "ok") => Len(argName) = 3

====
